---- MODULE Spec2Model ----
(***************************************************************************)
(* Model of the salary-advance / personal-loan back end:                   *)
(*   src/back_end/calculations.py   (pure calculators and record_loan)     *)
(*   src/back_end/fast_api_main.py  (the request handlers and loans_df)    *)
(*                                                                         *)
(* Conventions                                                             *)
(*  - A Python string that the code inspects character by character        *)
(*    (pay_frequency, through .lower()) is a sequence of characters, each  *)
(*    a one-character string or, beyond Latin-1, its code point "U+212A".  *)
(*  - None is the empty sequence <<>>, a present value v is <<v>>.         *)
(*  - The result of a call is [raised |-> name of the exception or "",     *)
(*    msg |-> its message, ret |-> <<returned value>> or <<>>].            *)
(*  - Money amounts are integers (whole shillings); a money column of an   *)
(*    amortization schedule, rounded to 2 decimals, is [whole, cents].     *)
(*  - An annual interest rate is the dyadic rational m / 2^k, written      *)
(*    [m |-> m, k |-> k]; every such value is an exact IEEE double.        *)
(*  - The loan calculators compute in floats: the model computes every     *)
(*    float operation exactly and rounds it as IEEE-754 does.              *)
(***************************************************************************)
EXTENDS Integers, Sequences, FiniteSets, TLC

VARIABLES
    loans_df,   \* fast_api_main.loans_df: the global ledger, a sequence of rows
    pc,         \* pc[r]: position of the handler serving request r
    kind,       \* kind[r]: "advance" (/calculate_advance) or "loan" (/calculate_loan)
    request,    \* request[r]: the request dict the handler was called with
    frame,      \* frame[r]: the handler's locals between its steps
    outcome,    \* outcome[r]: what the handler ended with (response or exception)
    started,    \* number of requests received so far
    ev_in,      \* arguments of a direct call of a pure calculator
    ev_out,     \* its result
    led_df,     \* the DataFrame a direct caller of record_loan holds
    led_last,   \* the last direct record_loan call: arguments, frame before, result
    listings    \* what each GET /loans so far returned, in the order of the calls

vars == <<loans_df, pc, kind, request, frame, outcome, started,
          ev_in, ev_out, led_df, led_last, listings>>

-----------------------------------------------------------------------------
(* Python values *)

None == <<>>
Some(v) == <<v>>

Return(v) == [raised |-> "", msg |-> <<>>, ret |-> <<v>>]
Raise(exc, m) == [raised |-> exc, msg |-> m, ret |-> <<>>]

\* int(x) of the quotient num/den, den > 0: truncation toward zero
IntTrunc(num, den) ==
    IF num >= 0 THEN num \div den ELSE -((-num) \div den)

\* str.lower() is Unicode-aware.  The alphabet of the model is Basic Latin and
\* Latin-1 Supplement (U+0000-00FF), each character a one-character string,
\* and four characters beyond them, written by their code points.
KELVIN_SIGN == "U+212A"
ANGSTROM_SIGN == "U+212B"
CAPITAL_I_WITH_DOT_ABOVE == "U+0130"
COMBINING_DOT_ABOVE == "U+0307"

\* UpperChars are the characters of the alphabet that lower() changes, and
\* LowerChars what each becomes: one character, or two for U+0130.  The
\* Kelvin sign becomes the letter k.
UpperChars == <<"A","B","C","D","E","F","G","H","I","J","K","L","M","N","O",
                "P","Q","R","S","T","U","V","W","X","Y","Z","À","Á","Â","Ã",
                "Ä","Å","Æ","Ç","È","É","Ê","Ë","Ì","Í","Î","Ï","Ð","Ñ","Ò",
                "Ó","Ô","Õ","Ö","Ø","Ù","Ú","Û","Ü","Ý","Þ",KELVIN_SIGN,
                ANGSTROM_SIGN,CAPITAL_I_WITH_DOT_ABOVE>>
LowerChars == <<<<"a">>,<<"b">>,<<"c">>,<<"d">>,<<"e">>,<<"f">>,<<"g">>,
                <<"h">>,<<"i">>,<<"j">>,<<"k">>,<<"l">>,<<"m">>,<<"n">>,
                <<"o">>,<<"p">>,<<"q">>,<<"r">>,<<"s">>,<<"t">>,<<"u">>,
                <<"v">>,<<"w">>,<<"x">>,<<"y">>,<<"z">>,<<"à">>,<<"á">>,
                <<"â">>,<<"ã">>,<<"ä">>,<<"å">>,<<"æ">>,<<"ç">>,<<"è">>,
                <<"é">>,<<"ê">>,<<"ë">>,<<"ì">>,<<"í">>,<<"î">>,<<"ï">>,
                <<"ð">>,<<"ñ">>,<<"ò">>,<<"ó">>,<<"ô">>,<<"õ">>,<<"ö">>,
                <<"ø">>,<<"ù">>,<<"ú">>,<<"û">>,<<"ü">>,<<"ý">>,<<"þ">>,
                <<"k">>,<<"å">>,<<"i", COMBINING_DOT_ABOVE>>>>

LowerCaseOf == [c \in {UpperChars[i] : i \in 1..Len(UpperChars)} |-> LowerChars[CHOOSE i \in 1..Len(UpperChars) : UpperChars[i] = c]]

LowerChar(c) == IF c \in DOMAIN LowerCaseOf THEN LowerCaseOf[c] ELSE <<c>>

\* str.lower()
RECURSIVE lower(_)
lower(s) == IF s = <<>> THEN <<>> ELSE LowerChar(s[1]) \o lower(Tail(s))

weekly == <<"w","e","e","k","l","y">>
bi_weekly == <<"b","i","-","w","e","e","k","l","y">>
semi_monthly == <<"s","e","m","i","-","m","o","n","t","h","l","y">>
monthly == <<"m","o","n","t","h","l","y">>

\* A message is the sequence of the pieces of text it is formatted from.
Str(s) == <<s>>

UnsupportedMsg == Str("Unsupported pay frequency. Supported frequencies are: weekly, bi-weekly, semi-monthly, monthly.")
MissingArgMsg == Str("calculate_advance_amount() missing 1 required positional argument: 'requested_advance_amount'")

-----------------------------------------------------------------------------
(* calculations.calculate_advance_amount.  args is the tuple of positional  *)
(* arguments of the call: binding fewer than the three required parameters  *)
(* raises TypeError before the body runs.                                   *)

calculate_advance_amount_rounding(args) ==
    IF Len(args) # 3
    THEN Raise("TypeError", MissingArgMsg)
    ELSE LET gross_salary == args[1]
             pay_frequency == args[2]
             lo == lower(pay_frequency)
         IN  IF lo = weekly THEN Return(((gross_salary * 4) + 1) \div 2)
             ELSE IF lo = bi_weekly THEN Return(((gross_salary * 2) + 1) \div 2)
             ELSE IF lo = semi_monthly THEN Return(((gross_salary * 2) + 1) \div 2)
             ELSE IF lo = monthly THEN Return((gross_salary + 1) \div 2)
             ELSE Raise("ValueError", UnsupportedMsg)

calculate_advance_amount(args) ==
    IF Len(args) # 3
    THEN Raise("TypeError", MissingArgMsg)
    ELSE LET gross_salary == args[1]
             pay_frequency == args[2]
             lo == lower(pay_frequency)
         IN  IF lo = weekly THEN Return(IntTrunc(gross_salary * 4, 2))
             ELSE IF lo = bi_weekly THEN Return(IntTrunc(gross_salary * 2, 2))
             ELSE IF lo = semi_monthly THEN Return(IntTrunc(gross_salary * 2, 2))
             ELSE IF lo = monthly THEN Return(IntTrunc(gross_salary, 2))
             ELSE Raise("ValueError", UnsupportedMsg)

-----------------------------------------------------------------------------
(* fast_api_main.check_eligibility_detailed *)

ELIGIBLE_PAY_FREQUENCIES == <<weekly, bi_weekly, semi_monthly, monthly>>
MIN_SALARY == 200000

InList(x, list) == \E i \in 1..Len(list) : list[i] = x

(* calculations.if_eligible: its own list of frequencies has the same four   *)
(* labels; its salary threshold is the literal of line 41.                   *)

IF_ELIGIBLE_MIN_SALARY == 500000

if_eligible(gross_salary, pay_frequency, requested_advance_amount) ==
    IF gross_salary < IF_ELIGIBLE_MIN_SALARY THEN Return(FALSE)
    ELSE IF ~InList(lower(pay_frequency), ELIGIBLE_PAY_FREQUENCIES) THEN Return(FALSE)
    ELSE IF requested_advance_amount <= 0 THEN Return(FALSE)
    ELSE LET call == calculate_advance_amount(
                         <<gross_salary, pay_frequency, requested_advance_amount>>)
         IN  IF call.raised # "" THEN call
             ELSE IF requested_advance_amount > call.ret[1] THEN Return(FALSE)
             ELSE Return(TRUE)

\* one entry of failed_criteria: the message text and the two values formatted into it
Msg(text, a, b) == [text |-> text, a |-> a, b |-> b]
SalaryMsg(gross_salary) == Msg(Str("Minimum salary requirement not met."), MIN_SALARY, gross_salary)
FrequencyMsg == Msg(Str("Invalid pay frequency. Supported frequencies: weekly, bi-weekly, semi-monthly, monthly"), 0, 0)
AmountMsg == Msg(Str("Requested advance amount must be greater than 0"), 0, 0)
LimitMsg(max_eligible, requested) ==
    Msg(Str("Requested amount exceeds maximum eligible advance."), max_eligible, requested)

\* the advance-limit block gated on the salary check alone
AdvanceLimitBlock_salary_only(d, gross_salary, pay_frequency, requested_advance_amount) ==
    IF d.salary_check
    THEN LET call == calculate_advance_amount(<<gross_salary, pay_frequency>>)
         IN  IF call.raised = "ValueError"
             THEN Return([d EXCEPT !.is_eligible = FALSE,
                                   !.failed_criteria = Append(@, Msg(call.msg, 0, 0))])
             ELSE IF call.raised # ""
             THEN call
             ELSE Return([d EXCEPT !.max_eligible_advance = Some(call.ret[1])])
    ELSE Return(d)

\* the advance-limit block, lines 102-119, applied to the dict d built so far
AdvanceLimitBlock(d, gross_salary, pay_frequency, requested_advance_amount) ==
    IF d.salary_check /\ d.pay_frequency_check
    THEN LET call == calculate_advance_amount(<<gross_salary, pay_frequency>>)
         IN  IF call.raised = "ValueError"
             THEN Return([d EXCEPT !.is_eligible = FALSE,
                                   !.failed_criteria = Append(@, Msg(call.msg, 0, 0))])
             ELSE IF call.raised # ""
             THEN call   \* not a ValueError: propagates out of the function
             ELSE LET max_eligible == call.ret[1]
                      d1 == [d EXCEPT !.max_eligible_advance = Some(max_eligible)]
                  IN  IF requested_advance_amount > max_eligible
                      THEN Return([d1 EXCEPT
                               !.is_eligible = FALSE,
                               !.advance_limit_check = FALSE,
                               !.failed_criteria =
                                   Append(@, LimitMsg(max_eligible, requested_advance_amount))])
                      ELSE Return(d1)
    ELSE Return(d)

\* lines 68-76
initial_details_limit_false(gross_salary, pay_frequency, requested_advance_amount) ==
    [is_eligible |-> TRUE,
     failed_criteria |-> <<>>,
     max_eligible_advance |-> None,
     salary_check |-> gross_salary >= MIN_SALARY,
     pay_frequency_check |-> InList(lower(pay_frequency), ELIGIBLE_PAY_FREQUENCIES),
     amount_check |-> requested_advance_amount > 0,
     advance_limit_check |-> FALSE]

initial_details(gross_salary, pay_frequency, requested_advance_amount) ==
    [is_eligible |-> TRUE,
     failed_criteria |-> <<>>,
     max_eligible_advance |-> None,
     salary_check |-> gross_salary >= MIN_SALARY,
     pay_frequency_check |-> InList(lower(pay_frequency), ELIGIBLE_PAY_FREQUENCIES),
     amount_check |-> requested_advance_amount > 0,
     advance_limit_check |-> TRUE]

\* lines 78-84
salary_rule(d, gross_salary) ==
    IF gross_salary < MIN_SALARY
    THEN [d EXCEPT !.is_eligible = FALSE,
                   !.salary_check = FALSE,
                   !.failed_criteria = Append(@, SalaryMsg(gross_salary))]
    ELSE d

\* lines 86-92
frequency_rule_short_circuit(d, pay_frequency) ==
    IF d.is_eligible /\ ~InList(lower(pay_frequency), ELIGIBLE_PAY_FREQUENCIES)
    THEN [d EXCEPT !.is_eligible = FALSE,
                   !.pay_frequency_check = FALSE,
                   !.failed_criteria = Append(@, FrequencyMsg)]
    ELSE d

frequency_rule(d, pay_frequency) ==
    IF ~InList(lower(pay_frequency), ELIGIBLE_PAY_FREQUENCIES)
    THEN [d EXCEPT !.is_eligible = FALSE,
                   !.pay_frequency_check = FALSE,
                   !.failed_criteria = Append(@, FrequencyMsg)]
    ELSE d

\* lines 94-100
amount_rule(d, requested_advance_amount) ==
    IF requested_advance_amount <= 0
    THEN [d EXCEPT !.is_eligible = FALSE,
                   !.amount_check = FALSE,
                   !.failed_criteria = Append(@, AmountMsg)]
    ELSE d

check_eligibility_detailed(gross_salary, pay_frequency, requested_advance_amount) ==
    LET d0 == initial_details(gross_salary, pay_frequency, requested_advance_amount)
        d1 == salary_rule(d0, gross_salary)
        d2 == frequency_rule(d1, pay_frequency)
        d3 == amount_rule(d2, requested_advance_amount)
    IN  AdvanceLimitBlock(d3, gross_salary, pay_frequency, requested_advance_amount)

-----------------------------------------------------------------------------
(* Dates.  A date is an offset from the day the requests are served:        *)
(* today + months calendar months + days days.                              *)

Date(months, days) == [months |-> months, days |-> days]
Today == Date(0, 0)                                  \* datetime.date.today()
PlusDays(d, n) == [d EXCEPT !.days = @ + n]          \* d + datetime.timedelta(days=n)
PlusMonths(d, n) == [d EXCEPT !.months = @ + n]      \* d + pd.DateOffset(months=n)
DAYS_30 == 30

(* Interest rates: the double m / 2^k *)
Rate(m, k) == [m |-> m, k |-> k]
ZeroRate == Rate(0, 0)
Pow(b, e) == IF e = 0 THEN 1 ELSE LET RECURSIVE P(_) P(n) == IF n = 0 THEN 1 ELSE b * P(n - 1) IN P(e)

-----------------------------------------------------------------------------
(* calculations.record_loan.  A DataFrame is the sequence of its rows.      *)

active_statuses == <<"approved", "disbursed">>

employee_active_loans_approved_only(df_loans, employee_id) ==
    SelectSeq(df_loans,
              LAMBDA row : row.employee_id = employee_id /\ row.status = "approved")

employee_active_loans(df_loans, employee_id) ==
    SelectSeq(df_loans,
              LAMBDA row : row.employee_id = employee_id /\ InList(row.status, active_statuses))

ActiveLoanMsg(employee_id) ==
    <<"Employee ", employee_id, " already has an active loan. Cannot take out another loan.">>

new_record(employee_id, loan_type, amount, disbursement_date, expected_repayment_date, interest_rate, loan_term_months, status) ==
    LET disbursement == IF disbursement_date = None THEN Today ELSE disbursement_date[1]
        repayment == IF expected_repayment_date = None
                     THEN PlusDays(disbursement, DAYS_30)
                     ELSE expected_repayment_date[1]
    IN  [employee_id |-> employee_id,
         loan_type |-> loan_type,
         amount |-> amount,
         interest_rate |-> interest_rate,
         loan_term_months |-> loan_term_months,
         disbursement_date |-> disbursement,
         expected_repayment_date |-> repayment,
         status |-> status,
         created_at |-> Today]

record_loan_unchecked(df_loans, employee_id, loan_type, amount, disbursement_date, expected_repayment_date, interest_rate, loan_term_months, status) ==
    Return(Append(df_loans,
                  new_record(employee_id, loan_type, amount, disbursement_date,
                             expected_repayment_date, interest_rate, loan_term_months,
                             status)))

record_loan(df_loans, employee_id, loan_type, amount, disbursement_date, expected_repayment_date, interest_rate, loan_term_months, status) ==
    IF employee_active_loans(df_loans, employee_id) # <<>>
    THEN Raise("ValueError", ActiveLoanMsg(employee_id))
    ELSE Return(Append(df_loans,
                       new_record(employee_id, loan_type, amount, disbursement_date,
                                  expected_repayment_date, interest_rate, loan_term_months,
                                  status)))

-----------------------------------------------------------------------------
(* Python floats.  A float is an IEEE-754 double; the model holds one as the *)
(* exact value  (-1)^neg * mant * 2^exp,  mant a natural number below 2^53   *)
(* written as a sequence of limbs, least significant first, in base 2^15     *)
(* (<<>> is 0).  Every arithmetic operation computes the exact result and    *)
(* rounds it to the nearest double, ties to even, as the hardware does.      *)
(* Doubles outside the normal range (overflow, subnormals) are not modelled. *)

LimbBase == Pow(2, 15)

RECURSIVE BNat(_)
BNat(n) == IF n = 0 THEN <<>> ELSE <<n % LimbBase>> \o BNat(n \div LimbBase)

RECURSIVE BInt(_)
BInt(a) == IF a = <<>> THEN 0 ELSE a[1] + LimbBase * BInt(Tail(a))

RECURSIVE BNorm(_)
BNorm(a) ==
    IF a = <<>> THEN a
    ELSE IF a[Len(a)] = 0 THEN BNorm(SubSeq(a, 1, Len(a) - 1))
    ELSE a

BRest(a) == IF a = <<>> THEN a ELSE Tail(a)
BLow(a) == IF a = <<>> THEN 0 ELSE a[1]
BTimesBase(a) == IF a = <<>> THEN a ELSE <<0>> \o a

RECURSIVE BAddC(_, _, _)
BAddC(a, b, carry) ==
    IF a = <<>> /\ b = <<>>
    THEN IF carry = 0 THEN <<>> ELSE <<carry>>
    ELSE LET x == BLow(a) + BLow(b) + carry
         IN  <<x % LimbBase>> \o BAddC(BRest(a), BRest(b), x \div LimbBase)

BAdd(a, b) == BAddC(a, b, 0)

\* a - b for a >= b
RECURSIVE BSubC(_, _, _)
BSubC(a, b, borrow) ==
    IF a = <<>> THEN <<>>
    ELSE LET x == a[1] - BLow(b) - borrow
         IN  IF x < 0
             THEN <<x + LimbBase>> \o BSubC(Tail(a), BRest(b), 1)
             ELSE <<x>> \o BSubC(Tail(a), BRest(b), 0)

BSub(a, b) == BNorm(BSubC(a, b, 0))

\* -1, 0 or 1 as a < b, a = b, a > b
RECURSIVE BCmpFrom(_, _, _)
BCmpFrom(a, b, i) ==
    IF i = 0 THEN 0
    ELSE IF a[i] < b[i] THEN -1
    ELSE IF a[i] > b[i] THEN 1
    ELSE BCmpFrom(a, b, i - 1)

BCmp(a, b) ==
    IF Len(a) < Len(b) THEN -1
    ELSE IF Len(a) > Len(b) THEN 1
    ELSE BCmpFrom(a, b, Len(a))

\* a * k + carry for 0 <= k < 2^15
RECURSIVE BMulSmallC(_, _, _)
BMulSmallC(a, k, carry) ==
    IF a = <<>>
    THEN IF carry = 0 THEN <<>> ELSE <<carry>>
    ELSE LET x == a[1] * k + carry
         IN  <<x % LimbBase>> \o BMulSmallC(Tail(a), k, x \div LimbBase)

BMulSmall(a, k) == IF k = 0 THEN <<>> ELSE BMulSmallC(a, k, 0)

\* the sum over i of the low (or high) limbs of the products a[i] * b[k + 1 - i]
RECURSIVE ColumnSum(_, _, _, _, _)
ColumnSum(a, b, k, i, high) ==
    IF i > Len(a) \/ i > k THEN 0
    ELSE IF k + 1 - i > Len(b) THEN ColumnSum(a, b, k, i + 1, high)
    ELSE IF high THEN ((a[i] * b[k + 1 - i]) \div LimbBase) + ColumnSum(a, b, k, i + 1, high)
    ELSE ((a[i] * b[k + 1 - i]) % LimbBase) + ColumnSum(a, b, k, i + 1, high)

RECURSIVE BCarry(_, _)
BCarry(columns, carry) ==
    IF columns = <<>> THEN BNat(carry)
    ELSE <<(columns[1] + carry) % LimbBase>> \o BCarry(Tail(columns), (columns[1] + carry) \div LimbBase)

\* a * b, column by column
BMul(a, b) ==
    IF a = <<>> \/ b = <<>> THEN <<>>
    ELSE BNorm(BCarry([k \in 1 .. Len(a) + Len(b) |-> ColumnSum(a, b, k, 1, FALSE) + ColumnSum(a, b, k - 1, 1, TRUE)], 0))

\* quotient and remainder of a by k, 0 < k <= 2^15
RECURSIVE BDivSmall(_, _)
BDivSmall(a, k) ==
    IF a = <<>> THEN [quo |-> <<>>, rest |-> 0]
    ELSE LET hi == BDivSmall(Tail(a), k)
             cur == hi.rest * LimbBase + a[1]
         IN  [quo |-> IF hi.quo = <<>> /\ cur \div k = 0 THEN <<>> ELSE <<cur \div k>> \o hi.quo,
              rest |-> cur % k]

RECURSIVE Zeros(_)
Zeros(n) == IF n = 0 THEN <<>> ELSE <<0>> \o Zeros(n - 1)

\* a * 2^s
BShl(a, s) ==
    IF a = <<>> THEN a
    ELSE BMulSmallC(Zeros(s \div 15) \o a, Pow(2, s % 15), 0)

\* floor(a / 2^s)
BShr(a, s) ==
    IF Len(a) <= s \div 15 THEN <<>>
    ELSE BDivSmall(SubSeq(a, s \div 15 + 1, Len(a)), Pow(2, s % 15)).quo

RECURSIVE SmallBitLen(_)
SmallBitLen(x) == IF x = 0 THEN 0 ELSE 1 + SmallBitLen(x \div 2)

\* the number of binary digits of a
BBitLen(a) == IF a = <<>> THEN 0 ELSE 15 * (Len(a) - 1) + SmallBitLen(a[Len(a)])

BOdd(a) == a # <<>> /\ a[1] % 2 = 1

\* the largest digit d in lo .. hi - 1 with d * b <= cur, given lo * b <= cur < hi * b
RECURSIVE QuotientDigit(_, _, _, _)
QuotientDigit(cur, b, lo, hi) ==
    IF hi - lo <= 1 THEN lo
    ELSE IF BCmp(BMulSmall(b, (lo + hi) \div 2), cur) <= 0
    THEN QuotientDigit(cur, b, (lo + hi) \div 2, hi)
    ELSE QuotientDigit(cur, b, lo, (lo + hi) \div 2)

\* quotient and remainder of a by b, b > 0: long division, a limb at a time
RECURSIVE BDivMod(_, _)
BDivMod(a, b) ==
    IF a = <<>> THEN [quo |-> <<>>, rest |-> <<>>]
    ELSE LET above == BDivMod(Tail(a), b)
             cur == BNorm(<<a[1]>> \o above.rest)
             digit == QuotientDigit(cur, b, 0, LimbBase)
         IN  [quo |-> BNorm(<<digit>> \o above.quo),
              rest |-> BSub(cur, BMulSmall(b, digit))]

Double(neg, mant, exp) == [neg |-> neg /\ mant # <<>>, mant |-> mant, exp |-> exp]

\* the double nearest to (-1)^neg * n * 2^exp, or to a value just above it
\* in magnitude when sticky (the part of the exact value below n's last bit)
RoundToDouble(neg, n, exp, sticky) ==
    LET len == BBitLen(n)
    IN  IF len <= 53 THEN Double(neg, n, exp)
        ELSE LET d == len - 53
                 q == BShr(n, d)
                 rem == BSub(n, BShl(q, d))
                 c == BCmp(rem, BShl(<<1>>, d - 1))
                 up == c > 0 \/ (c = 0 /\ (sticky \/ BOdd(q)))
             IN  Double(neg, IF up THEN BAddC(q, <<>>, 1) ELSE q, exp + d)

float(n) == Double(n < 0, BNat(IF n < 0 THEN -n ELSE n), 0)

DIsZero(a) == a.mant = <<>>
DNeg(a) == Double(~a.neg, a.mant, a.exp)

DMul(a, b) ==
    IF DIsZero(a) THEN a
    ELSE IF DIsZero(b) THEN b
    ELSE RoundToDouble(a.neg # b.neg, BMul(a.mant, b.mant), a.exp + b.exp, FALSE)

DAdd(a, b) ==
    LET e == IF a.exp < b.exp THEN a.exp ELSE b.exp
        x == BShl(a.mant, a.exp - e)
        y == BShl(b.mant, b.exp - e)
        side == BCmp(x, y)
    IN  IF DIsZero(a) THEN b
        ELSE IF DIsZero(b) THEN a
        ELSE RoundToDouble(IF a.neg = b.neg \/ side >= 0 THEN a.neg ELSE b.neg,
                           IF a.neg = b.neg THEN BAdd(x, y)
                           ELSE IF side >= 0 THEN BSub(x, y)
                           ELSE BSub(y, x),
                           e, FALSE)

DSub(a, b) == DAdd(a, DNeg(b))

\* a / b for b # 0, from the quotient of a * 2^t by b
DDivShifted(a, b, t) ==
    LET qr == BDivMod(BShl(a.mant, t), b.mant)
    IN  RoundToDouble(a.neg # b.neg, qr.quo, a.exp - b.exp - t, qr.rest # <<>>)

\* the shift that leaves the quotient of x * 2^t by y at least 56 bits
QuotientShift(x, y) ==
    LET gap == 56 + BBitLen(y) - BBitLen(x)
    IN  IF gap > 0 THEN gap ELSE 0

\* a / b for b # 0
DDiv(a, b) ==
    IF DIsZero(a) THEN a
    ELSE DDivShifted(a, b, QuotientShift(a.mant, b.mant))

\* a < b
DLess(a, b) ==
    LET diff == DSub(a, b)
    IN  diff.neg

\* The working precision of pow: WideLimbs limbs (300 bits) of the power are
\* kept, and whether anything was cut off below them.
WideLimbs == 20

Wide(mant, exp, inexact) ==
    IF Len(mant) <= WideLimbs
    THEN [mant |-> mant, exp |-> exp, inexact |-> inexact]
    ELSE [mant |-> SubSeq(mant, Len(mant) - WideLimbs + 1, Len(mant)),
          exp |-> exp + 15 * (Len(mant) - WideLimbs),
          inexact |-> inexact \/ SubSeq(mant, 1, Len(mant) - WideLimbs) # Zeros(Len(mant) - WideLimbs)]

WideMul(v, w) ==
    IF v.mant = <<>> THEN v
    ELSE IF w.mant = <<>> THEN w
    ELSE Wide(BMul(v.mant, w.mant), v.exp + w.exp, v.inexact \/ w.inexact)

\* v^n by squaring
RECURSIVE WidePow(_, _)
WidePow(v, n) ==
    IF n = 0 THEN Wide(<<1>>, 0, FALSE)
    ELSE LET half == WidePow(v, n \div 2)
             square == WideMul(half, half)
         IN  IF n % 2 = 1 THEN WideMul(square, v) ELSE square

\* math.pow is the C library's pow, which is not correctly rounded: its
\* result is within 9/16 of a unit in the last place of the power (glibc
\* states a worst-case error of 0.54 units for its pow).  Where the
\* power lies within 1/16 of a unit of the middle of two floats, either of
\* them can be the result and the library decides which; libm is that
\* decision for one call, the float below the power or the float above it
\* (in magnitude).  Everywhere else the result is the nearest float.
LibmRoundings == {"down", "up"}

\* n, of more than 53 binary digits, lies within 1/16 of a unit of its 53rd
\* digit from the middle of two 53-digit numbers
NearMiddle(n) ==
    LET d == BBitLen(n) - 53
        below == BSub(n, BShl(BShr(n, d), d))
        half == BShl(<<1>>, d - 1)
        gap == IF BCmp(below, half) >= 0 THEN BSub(below, half) ELSE BSub(half, below)
    IN  d > 0 /\ BCmp(BMulSmall(gap, 16), BShl(<<1>>, d)) <= 0

\* the float below or above (-1)^neg * n * 2^exp in magnitude, n of more than
\* 53 binary digits
RoundToNeighbour(neg, n, exp, libm) ==
    LET d == BBitLen(n) - 53
        q == BShr(n, d)
    IN  Double(neg, IF libm = "up" THEN BAddC(q, <<>>, 1) ELSE q, exp + d)

\* math.pow(a, n) for a whole exponent n >= 0.  The power is exact while it
\* fits the working precision (up to n = 5 for any a), and carried to 300
\* bits beyond that.
DPow(a, n, libm) ==
    IF n = 0 THEN float(1)
    ELSE IF DIsZero(a) THEN a
    ELSE LET power == WidePow(Wide(a.mant, a.exp, FALSE), n)
         IN  IF NearMiddle(BNorm(power.mant))
             THEN RoundToNeighbour(a.neg /\ n % 2 = 1, BNorm(power.mant), power.exp, libm)
             ELSE RoundToDouble(a.neg /\ n % 2 = 1, BNorm(power.mant), power.exp, power.inexact)

\* int(a): the whole part, towards zero
DTrunc(a) ==
    LET whole == IF a.exp >= 0 THEN BShl(a.mant, a.exp) ELSE BShr(a.mant, -a.exp)
    IN  IF a.neg THEN -BInt(whole) ELSE BInt(whole)

\* rint(a): the float that is the nearest whole number, ties to even
DRint(a) ==
    IF a.exp >= 0 THEN a
    ELSE LET whole == BShr(a.mant, -a.exp)
             part == BSub(a.mant, BShl(whole, -a.exp))
             side == BCmp(part, BShl(<<1>>, -a.exp - 1))
             away == side > 0 \/ (side = 0 /\ BOdd(whole))
         IN  Double(a.neg, IF away THEN BAddC(whole, <<>>, 1) ELSE whole, 0)

-----------------------------------------------------------------------------
(* The floats of the loan calculators.                                       *)

MONTHS_PER_YEAR == 12

\* the float annual_interest_rate: m / 2^k
RateFloat(rate) == Double(rate.m < 0, BNat(IF rate.m < 0 THEN -rate.m ELSE rate.m), -rate.k)

\* math.pow(x, y) for a float y that holds a whole number, as n * (term / n)
\* does for every term up to 600
math_pow(x, y, libm) == DPow(x, DTrunc(y), libm)

\* the range test without its lower bound: annual_interest_rate <= 1.0
RateInUnitInterval_upper_only(rate) ==
    rate.k >= 31 \/ rate.m <= Pow(2, rate.k)

\* 0 <= annual_interest_rate <= 1.0
RateInUnitInterval(rate) ==
    /\ rate.m >= 0
    /\ (rate.k >= 31 \/ rate.m <= Pow(2, rate.k))

-----------------------------------------------------------------------------
(* calculations.calculate_total_repayable_loan_amount (lines 155-196), float *)
(* operation by float operation.                                             *)

\* the compound factor with the sign of the rate slipped: (1 - r/12)^term
calculate_total_repayable_loan_amount_discounting(principal_amount, annual_interest_rate, loan_term_months, libm) ==
    IF principal_amount <= 0 THEN 0
    ELSE IF annual_interest_rate.m < 0 THEN 0
    ELSE IF loan_term_months <= 0 THEN 0
    ELSE LET n == float(MONTHS_PER_YEAR)
             t_years == DDiv(float(loan_term_months), n)
             total_repayable_amount ==
                 DMul(float(principal_amount),
                      math_pow(DSub(float(1), DDiv(RateFloat(annual_interest_rate), n)),
                               DMul(n, t_years), libm))
         IN  DTrunc(total_repayable_amount)

calculate_total_repayable_loan_amount(principal_amount, annual_interest_rate, loan_term_months, libm) ==
    IF principal_amount <= 0 THEN 0
    ELSE IF annual_interest_rate.m < 0 THEN 0
    ELSE IF loan_term_months <= 0 THEN 0
    ELSE LET n == float(MONTHS_PER_YEAR)
             t_years == DDiv(float(loan_term_months), n)
             total_repayable_amount ==
                 DMul(float(principal_amount),
                      math_pow(DAdd(float(1), DDiv(RateFloat(annual_interest_rate), n)),
                               DMul(n, t_years), libm))
         IN  DTrunc(total_repayable_amount)

-----------------------------------------------------------------------------
(* calculations.generate_amortization_schedule: the DataFrame returned, as   *)
(* the sequence of its rows; pd.DataFrame() is <<>>.  Each of the five money *)
(* columns of a row, which the function rounds to 2 decimals, is held as     *)
(* [whole, cents]: the number whole + cents / 100.                           *)

\* the decimal that has `hundredths` hundredths and the sign neg
Decimal2(neg, hundredths) ==
    LET parts == BDivSmall(hundredths, 100)
    IN  IF neg THEN [whole |-> -BInt(parts.quo), cents |-> -parts.rest]
        ELSE [whole |-> BInt(parts.quo), cents |-> parts.rest]

\* Series.round(2) of the float x: numpy multiplies by 100, rounds the product
\* to the nearest whole number, ties to even, and divides by 100; the quotient
\* is the float nearest to the 2-decimal number whole + cents / 100
round_2(x) ==
    LET scaled == DRint(DMul(x, float(100)))
    IN  Decimal2(scaled.neg, BShl(scaled.mant, scaled.exp))

\* lines 225-232
monthly_interest_rate(annual_interest_rate) ==
    IF annual_interest_rate.m = 0 THEN float(0)
    ELSE DDiv(RateFloat(annual_interest_rate), float(MONTHS_PER_YEAR))

\* a rate-0 payment of principal / 12, whatever the term
monthly_payment_per_year(principal_amount, annual_interest_rate, loan_term_months, libm) ==
    Some(DDiv(float(principal_amount), float(MONTHS_PER_YEAR)))

\* lines 227-248: the monthly payment, or None where the float division
\* raises ZeroDivisionError: (1 + i)^n - 1 is 0.0
monthly_payment(principal_amount, annual_interest_rate, loan_term_months, libm) ==
    IF annual_interest_rate.m = 0
    THEN Some(DDiv(float(principal_amount), float(loan_term_months)))
    ELSE LET rate_i == monthly_interest_rate(annual_interest_rate)
             growth == DPow(DAdd(float(1), rate_i), loan_term_months, libm)
             numerator == DMul(float(principal_amount), DMul(rate_i, growth))
             denominator == DSub(growth, float(1))
         IN  IF DIsZero(denominator) THEN None
             ELSE Some(DDiv(numerator, denominator))

\* the literal 0.0001 of line 277
TINY_RESIDUAL == DDiv(float(1), float(Pow(10, 4)))

\* lines 256-302: pass i of the loop, remaining_balance being the balance
\* before it; the row it appends and the balance it leaves
schedule_row(i, remaining_balance, payment, rate_i, loan_term_months, start_date) ==
    LET beginning_balance == remaining_balance
        interest_paid == DMul(beginning_balance, rate_i)
        last == (i = loan_term_months)
        principal_paid == IF last THEN beginning_balance
                          ELSE DSub(payment, interest_paid)
        this_payment == IF last THEN DAdd(beginning_balance, interest_paid)
                        ELSE payment
        after == DSub(remaining_balance, principal_paid)
        ending_balance == IF DLess(after, TINY_RESIDUAL) /\ last THEN float(0)
                          ELSE IF DLess(after, float(0)) THEN float(0)
                          ELSE after
    IN  [row |-> [Payment_Number |-> i,
                  Payment_Date |-> PlusMonths(start_date, i - 1),
                  Beginning_Balance |-> round_2(beginning_balance),
                  Monthly_Payment |-> round_2(this_payment),
                  Interest_Paid |-> round_2(interest_paid),
                  Principal_Paid |-> round_2(principal_paid),
                  Ending_Balance |-> round_2(ending_balance)],
         remaining_balance |-> ending_balance]

\* lines 255-302: passes from .. to of the loop in order (the first half,
\* then the second from the balance the first leaves); the rows they append
\* and the balance they leave
RECURSIVE schedule_data(_, _, _, _, _, _, _)
schedule_data(from, to, remaining_balance, payment, rate_i, loan_term_months, start_date) ==
    IF from = to
    THEN LET pass == schedule_row(from, remaining_balance, payment, rate_i, loan_term_months, start_date)
         IN  [rows |-> <<pass.row>>, remaining_balance |-> pass.remaining_balance]
    ELSE LET middle == (from + to) \div 2
             first == schedule_data(from, middle, remaining_balance, payment, rate_i, loan_term_months, start_date)
             second == schedule_data(middle + 1, to, first.remaining_balance, payment, rate_i, loan_term_months, start_date)
         IN  [rows |-> first.rows \o second.rows, remaining_balance |-> second.remaining_balance]

generate_amortization_schedule(principal_amount, annual_interest_rate, loan_term_months, start_date, libm) ==
    IF principal_amount <= 0 THEN <<>>
    ELSE IF annual_interest_rate.m < 0 THEN <<>>
    ELSE IF loan_term_months <= 0 THEN <<>>
    ELSE LET start == IF start_date = None THEN Today ELSE start_date[1]
             payment == monthly_payment(principal_amount, annual_interest_rate, loan_term_months, libm)
         IN  IF payment = None THEN <<>>
             ELSE schedule_data(1, loan_term_months, float(principal_amount), payment[1],
                                monthly_interest_rate(annual_interest_rate),
                                loan_term_months, start).rows

-----------------------------------------------------------------------------
(* fast_api_main: request validation and responses *)

validate_common_fields(req, required_fields) ==
    LET missing == {i \in 1..Len(required_fields) : required_fields[i] \notin DOMAIN req}
    IN  IF missing = {}
        THEN [error |-> FALSE, msg |-> None]
        ELSE LET first == CHOOSE i \in missing : \A j \in missing : i <= j
             IN  [error |-> TRUE, msg |-> <<"Missing required field: ", required_fields[first]>>]

AdvanceResponse(error, error_message, advance_eligible, advance_message, approved_advance_amount, eligibility_details) ==
    [error |-> error,
     error_message |-> error_message,
     advance_eligible |-> advance_eligible,
     advance_message |-> advance_message,
     approved_advance_amount |-> approved_advance_amount,
     eligibility_details |-> eligibility_details]

AdvanceFailed(error_message) ==
    AdvanceResponse(TRUE, error_message, FALSE, Str("Calculation failed"), None, None)

LoanResponse(error, error_message, loan_requested, total, schedule) ==
    [error |-> error,
     error_message |-> error_message,
     loan_requested |-> loan_requested,
     loan_total_repayable_amount |-> total,
     loan_amortization_schedule |-> schedule]

LoanFailed(error_message) == LoanResponse(TRUE, error_message, FALSE, None, None)

\* how a handler ends: it returns a response, or an exception leaves it uncaught
Pending == [status |-> "pending", exception |-> "", response |-> <<>>]
Returned(resp) == [status |-> "returned", exception |-> "", response |-> <<resp>>]
Uncaught(exc) == [status |-> "raised", exception |-> exc, response |-> <<>>]

\* the handler's locals that live across its steps
NoFrame == [df_loans |-> <<>>, eligibility_details |-> None,
            total_repayable |-> 0, amortization_schedule |-> None]

-----------------------------------------------------------------------------
(* The requests the model serves *)

MaxRequests == 3
Requests == 1..MaxRequests

Employees == {"E1", "E2"}
Daily == <<"d","a","i","l","y">>
MonthlyCapital == <<"M","o","n","t","h","l","y">>

AdvanceBody(gross_salary, pay_frequency, employee_id, requested) ==
    [gross_salary |-> gross_salary,
     pay_frequency |-> pay_frequency,
     employee_id |-> employee_id,
     salary_advance |-> [requested_advance_amount |-> requested]]

AdvanceRequests ==
    {AdvanceBody(3000000, MonthlyCapital, "E1", 1000000),   \* meets every rule
     AdvanceBody(3000000, monthly, "E2", 2000000),          \* above the advance limit
     AdvanceBody(100000, monthly, "E1", 1000000),           \* salary below the minimum
     AdvanceBody(3000000, Daily, "E1", 1000000),            \* unsupported frequency
     AdvanceBody(100000, Daily, "E2", 1000000),             \* low salary and unsupported
     AdvanceBody(0, monthly, "E1", 1000000),                \* invalid salary
     AdvanceBody(3000000, monthly, "E1", 0),                \* invalid amount
     [gross_salary |-> 3000000, pay_frequency |-> monthly],
     [gross_salary |-> 3000000, pay_frequency |-> monthly, employee_id |-> "E1",
      salary_advance |-> [amount |-> 1000000]]}

LoanBody(employee_id, loan_amount, annual_interest_rate, loan_term_months) ==
    [employee_id |-> employee_id,
     loan_amount |-> loan_amount,
     annual_interest_rate |-> annual_interest_rate,
     loan_term_months |-> loan_term_months]

TinyRate == Rate(1, 54)      \* 2^-54, about 5.6e-17
EighthRate == Rate(1, 3)     \* 0.125

LoanRequests ==
    {LoanBody("E1", 1000, EighthRate, 2),
     LoanBody("E1", 1000, TinyRate, 2),       \* the payment formula divides by zero
     LoanBody("E2", 1000, ZeroRate, 3),
     LoanBody("E1", 0, EighthRate, 2),        \* invalid amount
     LoanBody("E1", 1000, Rate(2, 0), 2),     \* rate above 1
     LoanBody("E2", 1000, Rate(-1, 3), 2),    \* negative rate
     LoanBody("E1", 1000, EighthRate, 0),     \* invalid term
     [employee_id |-> "E1", loan_amount |-> 1000, annual_interest_rate |-> EighthRate]}

-----------------------------------------------------------------------------
\* the handler without its "if not advance_eligible: return" (lines 189-197)
salary_advance_prologue_ungated(req) ==
    LET v == validate_common_fields(req, <<"gross_salary", "pay_frequency", "employee_id">>)
    IN  IF v.error
        THEN [out |-> Returned(AdvanceFailed(v.msg)), frame |-> NoFrame]
        ELSE IF \/ "salary_advance" \notin DOMAIN req
                \/ "requested_advance_amount" \notin DOMAIN req.salary_advance
        THEN [out |-> Returned(AdvanceFailed(Str("Missing salary_advance details"))),
              frame |-> NoFrame]
        ELSE IF req.gross_salary <= 0
        THEN [out |-> Returned(AdvanceFailed(Str("Invalid gross_salary"))), frame |-> NoFrame]
        ELSE IF req.salary_advance.requested_advance_amount <= 0
        THEN [out |-> Returned(AdvanceFailed(Str("Invalid requested_advance_amount"))),
              frame |-> NoFrame]
        ELSE LET call == check_eligibility_detailed(
                             req.gross_salary, req.pay_frequency,
                             req.salary_advance.requested_advance_amount)
             IN  IF call.raised # ""
                 THEN [out |-> Uncaught(call.raised), frame |-> NoFrame]
                 ELSE [out |-> Pending,
                       frame |-> [NoFrame EXCEPT !.eligibility_details = Some(call.ret[1])]]

(* fast_api_main.calculate_salary_advance, up to its call of record_loan     *)
(* (lines 125-197): what the handler has done when it either ends or is      *)
(* about to read loans_df.  [out, frame]: out is Pending when it goes on.    *)

salary_advance_prologue(req) ==
    LET v == validate_common_fields(req, <<"gross_salary", "pay_frequency", "employee_id">>)
    IN  IF v.error
        THEN [out |-> Returned(AdvanceFailed(v.msg)), frame |-> NoFrame]
        ELSE IF \/ "salary_advance" \notin DOMAIN req
                \/ "requested_advance_amount" \notin DOMAIN req.salary_advance
        THEN [out |-> Returned(AdvanceFailed(Str("Missing salary_advance details"))),
              frame |-> NoFrame]
        ELSE IF req.gross_salary <= 0
        THEN [out |-> Returned(AdvanceFailed(Str("Invalid gross_salary"))), frame |-> NoFrame]
        ELSE IF req.salary_advance.requested_advance_amount <= 0
        THEN [out |-> Returned(AdvanceFailed(Str("Invalid requested_advance_amount"))),
              frame |-> NoFrame]
        ELSE LET call == check_eligibility_detailed(
                             req.gross_salary, req.pay_frequency,
                             req.salary_advance.requested_advance_amount)
             IN  IF call.raised # ""
                 THEN [out |-> Uncaught(call.raised), frame |-> NoFrame]
                 ELSE IF ~call.ret[1].is_eligible
                 THEN [out |-> Returned(AdvanceResponse(
                                   FALSE, <<>>, FALSE,
                                   Str("Not eligible for salary advance. See details below."),
                                   None, Some(call.ret[1]))),
                       frame |-> NoFrame]
                 ELSE [out |-> Pending,
                       frame |-> [NoFrame EXCEPT !.eligibility_details = Some(call.ret[1])]]

(* fast_api_main.calculate_personal_loan, up to its call of record_loan      *)
(* (lines 228-290)                                                           *)

personal_loan_prologue(req, libm) ==
    LET v == validate_common_fields(
                 req, <<"employee_id", "loan_amount", "annual_interest_rate", "loan_term_months">>)
    IN  IF v.error
        THEN [out |-> Returned(LoanFailed(v.msg)), frame |-> NoFrame]
        ELSE IF \/ req.loan_amount <= 0
                \/ ~RateInUnitInterval(req.annual_interest_rate)
                \/ req.loan_term_months <= 0
        THEN [out |-> Returned(LoanFailed(Str("Invalid loan parameters"))), frame |-> NoFrame]
        ELSE LET total_repayable == calculate_total_repayable_loan_amount(
                     req.loan_amount, req.annual_interest_rate, req.loan_term_months, libm)
                 schedule_df == generate_amortization_schedule(
                     req.loan_amount, req.annual_interest_rate, req.loan_term_months,
                     Some(Today), libm)
                 amortization_schedule == IF schedule_df # <<>> THEN Some(schedule_df) ELSE None
             IN  [out |-> Pending,
                  frame |-> [NoFrame EXCEPT !.total_repayable = total_repayable,
                                            !.amortization_schedule = amortization_schedule]]

\* the prologue is a function of the request and of the C library: its
\* result for each loan request of the model
personal_loan_prologues ==
    [req \in LoanRequests |-> [libm \in LibmRoundings |-> personal_loan_prologue(req, libm)]]

(* the record_loan call of each handler (lines 200-210 and 292-302), on the  *)
(* DataFrame df_loans that the call was given                                *)

handler_record_loan(k, req, df_loans) ==
    IF k = "advance"
    THEN record_loan(df_loans, req.employee_id, "salary_advance",
                     req.salary_advance.requested_advance_amount,
                     Some(Today), Some(PlusDays(Today, DAYS_30)), ZeroRate, 0, "approved")
    ELSE record_loan(df_loans, req.employee_id, "personal_loan", req.loan_amount,
                     Some(Today), Some(PlusMonths(Today, req.loan_term_months)),
                     req.annual_interest_rate, req.loan_term_months, "approved")

\* the except ValueError branches (lines 211-215 and 312-319)
handler_on_value_error(k, req, fr, msg) ==
    IF k = "advance"
    THEN AdvanceResponse(FALSE, <<>>, FALSE, msg, None,
             Some([fr.eligibility_details[1] EXCEPT
                      !.failed_criteria = Append(@, Msg(msg, 0, 0))]))
    ELSE LoanFailed(msg)

\* the final return of each handler (lines 217-224 and 304-310)
handler_success(k, req, fr) ==
    IF k = "advance"
    THEN AdvanceResponse(FALSE, <<>>, TRUE, Str("Eligible for salary advance."),
                         Some(req.salary_advance.requested_advance_amount),
                         fr.eligibility_details)
    ELSE LoanResponse(FALSE, <<>>, TRUE, Some(fr.total_repayable), fr.amortization_schedule)

-----------------------------------------------------------------------------
(* The server: requests are served by handlers that run concurrently (the    *)
(* handlers are plain def functions, which the framework runs on worker      *)
(* threads).  loans_df = record_loan(df_loans=loans_df, ...) is three steps: *)
(* the global is read to build the arguments, record_loan runs on that       *)
(* DataFrame, and its result is stored into the global.                      *)

\* module load (lines 12-37): an empty ledger, no request received yet
ServerIdle ==
    /\ loans_df = <<>>
    /\ pc = [r \in Requests |-> "idle"]
    /\ kind = [r \in Requests |-> "none"]
    /\ request = [r \in Requests |-> <<>>]
    /\ frame = [r \in Requests |-> NoFrame]
    /\ outcome = [r \in Requests |-> Pending]
    /\ started = 0
    /\ listings = <<>>

server_vars == <<loans_df, pc, kind, request, frame, outcome, started, listings>>

Init ==
    /\ ServerIdle
    /\ ev_in = <<>>
    /\ ev_out = <<>>
    /\ led_df = <<>>
    /\ led_last = <<>>

Receive(r, k, req, pro) ==
    /\ pc[r] = "idle"
    /\ r = started + 1
    /\ started' = r
    /\ kind' = [kind EXCEPT ![r] = k]
    /\ request' = [request EXCEPT ![r] = req]
    /\ outcome' = [outcome EXCEPT ![r] = pro.out]
    /\ frame' = [frame EXCEPT ![r] = pro.frame]
    /\ pc' = [pc EXCEPT ![r] = IF pro.out = Pending THEN "read" ELSE "done"]
    /\ UNCHANGED <<loans_df, ev_in, ev_out, led_df, led_last, listings>>

ReceiveAdvance(r) ==
    \E req \in AdvanceRequests : Receive(r, "advance", req, salary_advance_prologue(req))

ReceiveLoan(r) ==
    \E req \in LoanRequests, libm \in LibmRoundings :
        Receive(r, "loan", req, personal_loan_prologues[req][libm])

\* df_loans=loans_df: the argument is the DataFrame the global names now
ReadLedger(r) ==
    /\ pc[r] = "read"
    /\ frame' = [frame EXCEPT ![r].df_loans = loans_df]
    /\ pc' = [pc EXCEPT ![r] = "scan"]
    /\ UNCHANGED <<loans_df, kind, request, outcome, started, ev_in, ev_out, led_df, led_last, listings>>

\* record_loan runs: it raises ValueError, which the handler answers, or
\* returns the new DataFrame
ScanLedger(r) ==
    /\ pc[r] = "scan"
    /\ LET call == handler_record_loan(kind[r], request[r], frame[r].df_loans)
       IN  IF call.raised = "ValueError"
           THEN /\ outcome' = [outcome EXCEPT ![r] =
                       Returned(handler_on_value_error(kind[r], request[r], frame[r], call.msg))]
                /\ pc' = [pc EXCEPT ![r] = "done"]
                /\ UNCHANGED frame
           ELSE /\ frame' = [frame EXCEPT ![r].df_loans = call.ret[1]]
                /\ pc' = [pc EXCEPT ![r] = "write"]
                /\ UNCHANGED outcome
    /\ UNCHANGED <<loans_df, kind, request, started, ev_in, ev_out, led_df, led_last, listings>>

\* loans_df = <result>, then the handler returns its response
WriteLedger(r) ==
    /\ pc[r] = "write"
    /\ loans_df' = frame[r].df_loans
    /\ outcome' = [outcome EXCEPT ![r] = Returned(handler_success(kind[r], request[r], frame[r]))]
    /\ pc' = [pc EXCEPT ![r] = "done"]
    /\ UNCHANGED <<frame, kind, request, started, ev_in, ev_out, led_df, led_last, listings>>

Next ==
    \E r \in Requests :
        \/ ReceiveAdvance(r)
        \/ ReceiveLoan(r)
        \/ ReadLedger(r)
        \/ ScanLedger(r)
        \/ WriteLedger(r)

Spec == Init /\ [][Next]_vars

-----------------------------------------------------------------------------
(* GET /loans beside the two POST handlers: the server of Spec, with a       *)
(* client that lists the ledger at any moment.                               *)

MaxListings == 2

\* datetime.isoformat(): the text of a date
isoformat(d) == [text |-> d]

\* isinstance(v, (datetime.date, datetime.datetime)): v is a date of the model
\* and neither None nor a string (the field names are compared as text, a
\* string's positions and a date's field names not being comparable)
IsDate(v) == ToString(DOMAIN v) = ToString({"months", "days"})

\* lines 53-57, for one field of date_fields
serialize_field(record, field) ==
    IF field \in DOMAIN record /\ IsDate(record[field])
    THEN [record EXCEPT ![field] = isoformat(@)]
    ELSE record

\* fast_api_main.serialize_dates: the date fields that hold a date become ISO
\* strings
serialize_dates(record) ==
    serialize_field(
        serialize_field(
            serialize_field(record, "disbursement_date"),
            "expected_repayment_date"),
        "created_at")

\* fast_api_main.get_all_loans on the DataFrame the global names when it runs
get_all_loans(df) == [i \in 1..Len(df) |-> serialize_dates(df[i])]

ListLoans ==
    /\ Len(listings) < MaxListings
    /\ listings' = Append(listings, get_all_loans(loans_df))
    /\ UNCHANGED <<loans_df, pc, kind, request, frame, outcome, started,
                   ev_in, ev_out, led_df, led_last>>

ListNext == Next \/ ListLoans

ListSpec == Init /\ [][ListNext]_vars

-----------------------------------------------------------------------------
(* Direct calls of the eligibility functions: the arguments are drawn in the *)
(* initial state and one of the functions is applied to them.                *)

WeeklyUpper == <<"W","E","E","K","L","Y">>
SemiMonthlyMixed == <<"S","e","m","i","-","M","o","n","t","h","l","y">>
BiWeeklyNoHyphen == <<"b","i","w","e","e","k","l","y">>

EvSalaries == {-1, 0, 1, 199999, 200000, 200001, 499999, 500000, 3000000}
WeeklyKelvin == <<"w","e","e",KELVIN_SIGN,"l","y">>          \* lower() gives weekly
MonthlyDotted == <<"m","o","n","t","h","l","y",CAPITAL_I_WITH_DOT_ABOVE>>
MonthlyAccent == <<"M","O","N","T","H","L","Y","É">>
EvLabels == {monthly, MonthlyCapital, WeeklyUpper, bi_weekly, SemiMonthlyMixed,
             Daily, BiWeeklyNoHyphen, <<>>, WeeklyKelvin, MonthlyDotted, MonthlyAccent}
EvAmounts == {-1, 0, 1, 100000, 100001, 1000000, 1500000, 1500001}

EvalInit ==
    /\ ServerIdle
    /\ ev_in \in [gross_salary : EvSalaries, pay_frequency : EvLabels,
                  requested_advance_amount : EvAmounts]
    /\ ev_out = <<>>
    /\ led_df = <<>>
    /\ led_last = <<>>

CallEligibility ==
    /\ ev_out = <<>>
    /\ ev_out' = Some([op |-> "check_eligibility_detailed",
                       call |-> check_eligibility_detailed(
                                    ev_in.gross_salary, ev_in.pay_frequency,
                                    ev_in.requested_advance_amount)])
    /\ UNCHANGED <<server_vars, ev_in, led_df, led_last>>

CallAdvanceAmount ==
    /\ ev_out = <<>>
    /\ ev_out' = Some([op |-> "calculate_advance_amount",
                       call |-> calculate_advance_amount(
                                    <<ev_in.gross_salary, ev_in.pay_frequency,
                                      ev_in.requested_advance_amount>>)])
    /\ UNCHANGED <<server_vars, ev_in, led_df, led_last>>

CallIfEligible ==
    /\ ev_out = <<>>
    /\ ev_out' = Some([op |-> "if_eligible",
                       call |-> if_eligible(ev_in.gross_salary, ev_in.pay_frequency,
                                            ev_in.requested_advance_amount)])
    /\ UNCHANGED <<server_vars, ev_in, led_df, led_last>>

EvalNext == CallEligibility \/ CallAdvanceAmount \/ CallIfEligible

EvalSpec == EvalInit /\ [][EvalNext]_vars

-----------------------------------------------------------------------------
(* Direct calls of the two loan calculators: the arguments are drawn in the  *)
(* initial state and one of the functions is applied to them.                *)

MaxTerm == 4

NearUlpRate == Rate(17, 52)    \* 17 * 2^-52, about 3.77e-15
HalfRate == Rate(1, 1)         \* 0.5
FullRate == Rate(1, 0)         \* 1.0

QuarterRate == Rate(1, 2)      \* 0.25

\* rates r for which (1 + r/12)^2, and (1 + r/12)^15, lie so near the middle
\* of two floats that the C library decides the power
NearMiddleRate2 == Rate(511, 9)
NearMiddleRate15 == Rate(1667, 11)

CalcRates == {ZeroRate, TinyRate, NearUlpRate, FullRate, Rate(-1, 0)}

\* Among them are inputs whose exact results are whole numbers or lie half-way
\* between two hundredths, where the float error decides the result:
\* 108 at 1.0 for 1 month (117 exactly), 147 at 0.5 for 2 months (a payment
\* of 78.125), 1 at 0 over 24 months (a balance of 0.625); and inputs whose
\* result depends on the C library: 4029819 at 511/512 over 2 months (a
\* payment of 2269626.60 or .61), 19286494 at 1667/2048 over 15 months (a
\* total of 51616376 or 51616377).
CalcInputs ==
    [principal_amount : {0, 1000}, annual_interest_rate : CalcRates,
     loan_term_months : 0..MaxTerm]
    \cup
    [principal_amount : {10, 108, 147},
     annual_interest_rate : CalcRates \cup {HalfRate, QuarterRate},
     loan_term_months : 0..MaxTerm]
    \cup
    {[principal_amount |-> 1200000, annual_interest_rate |-> ZeroRate,
      loan_term_months |-> 12],
     [principal_amount |-> 1, annual_interest_rate |-> ZeroRate,
      loan_term_months |-> 24],
     [principal_amount |-> 240, annual_interest_rate |-> QuarterRate,
      loan_term_months |-> 1]}
    \cup
    [principal_amount : {4029819},
     annual_interest_rate : {NearMiddleRate2, FullRate},
     loan_term_months : 1..3]
    \cup
    [principal_amount : {19286494},
     annual_interest_rate : {NearMiddleRate15, FullRate},
     loan_term_months : 14..16]

CalcInit ==
    /\ ServerIdle
    /\ ev_in \in CalcInputs
    /\ ev_out = <<>>
    /\ led_df = <<>>
    /\ led_last = <<>>

CallTotalRepayable ==
    /\ ev_out = <<>>
    /\ \E libm \in LibmRoundings :
           ev_out' = Some([op |-> "calculate_total_repayable_loan_amount",
                          ret |-> calculate_total_repayable_loan_amount(
                                      ev_in.principal_amount, ev_in.annual_interest_rate,
                                      ev_in.loan_term_months, libm)])
    /\ UNCHANGED <<server_vars, ev_in, led_df, led_last>>

CallSchedule ==
    /\ ev_out = <<>>
    /\ \E libm \in LibmRoundings :
           ev_out' = Some([op |-> "generate_amortization_schedule",
                          ret |-> generate_amortization_schedule(
                                      ev_in.principal_amount, ev_in.annual_interest_rate,
                                      ev_in.loan_term_months, Some(Today), libm)])
    /\ UNCHANGED <<server_vars, ev_in, led_df, led_last>>

CalcNext == CallTotalRepayable \/ CallSchedule

CalcSpec == CalcInit /\ [][CalcNext]_vars

-----------------------------------------------------------------------------
(* Direct calls of record_loan by a caller that keeps the DataFrame:         *)
(* df = record_loan(df, ...), df being left as it was when the call raises.  *)

MaxLedger == 3

LedgerCalls ==
    {[employee_id |-> e, loan_type |-> "salary_advance", amount |-> 1000,
      disbursement_date |-> None, expected_repayment_date |-> None,
      interest_rate |-> ZeroRate, loan_term_months |-> 0, status |-> st] :
        e \in Employees, st \in {"approved", "disbursed", "repaid"}}
    \cup
    {[employee_id |-> e, loan_type |-> "personal_loan", amount |-> 1000,
      disbursement_date |-> Some(Today), expected_repayment_date |-> Some(PlusMonths(Today, 2)),
      interest_rate |-> EighthRate, loan_term_months |-> 2, status |-> st] :
        e \in Employees, st \in {"approved", "repaid"}}

LedgerInit ==
    /\ ServerIdle
    /\ ev_in = <<>>
    /\ ev_out = <<>>
    /\ led_df = <<>>
    /\ led_last = <<>>

CallRecordLoan ==
    /\ Len(led_df) < MaxLedger
    /\ \E a \in LedgerCalls :
          LET call == record_loan(led_df, a.employee_id, a.loan_type, a.amount,
                                  a.disbursement_date, a.expected_repayment_date,
                                  a.interest_rate, a.loan_term_months, a.status)
          IN  /\ led_last' = Some([args |-> a, before |-> led_df, call |-> call])
              /\ led_df' = IF call.raised = "" THEN call.ret[1] ELSE led_df
    /\ UNCHANGED <<server_vars, ev_in, ev_out>>

LedgerNext == CallRecordLoan

LedgerSpec == LedgerInit /\ [][LedgerNext]_vars

-----------------------------------------------------------------------------
(* Properties *)

ActiveRows(df, e) ==
    {i \in 1..Len(df) : df[i].employee_id = e /\ df[i].status \in {"approved", "disbursed"}}

Response(r) == outcome[r].response[1]

\* request r was answered as succeeded
Succeeded(r) ==
    /\ pc[r] = "done"
    /\ outcome[r].status = "returned"
    /\ IF kind[r] = "advance" THEN Response(r).advance_eligible ELSE Response(r).loan_requested

\* request r was answered with the active-loan failure
RefusedActiveLoan(r) ==
    /\ pc[r] = "done"
    /\ outcome[r].status = "returned"
    /\ IF kind[r] = "advance"
       THEN ~Response(r).advance_eligible
            /\ Response(r).advance_message = ActiveLoanMsg(request[r].employee_id)
       ELSE Response(r).error
            /\ Response(r).error_message = ActiveLoanMsg(request[r].employee_id)

\* request r got as far as its record_loan call
ReachedLedger(r) ==
    /\ kind[r] # "none"
    /\ IF kind[r] = "advance"
       THEN salary_advance_prologue(request[r]).out = Pending
       ELSE \E libm \in LibmRoundings : personal_loan_prologues[request[r]][libm].out = Pending

\* C1: in every reachable state of the server, whatever the interleaving of the
\* advance and loan handlers, every employee has at most one ledger row whose
\* status is approved or disbursed.
C1_AtMostOneActiveLoan ==
    \A e \in Employees : Cardinality(ActiveRows(loans_df, e)) <= 1

\* two interleaved requests of one employee have both been answered as
\* succeeded, and the ledger holds one active row for that employee
C1_Witness ==
    \E r, q \in Requests :
        /\ r # q
        /\ Succeeded(r) /\ Succeeded(q)
        /\ request[r].employee_id = request[q].employee_id
        /\ Cardinality(ActiveRows(loans_df, request[r].employee_id)) = 1

\* C2: when the only two requests that reach the ledger for an employee have
\* both been answered, exactly one was answered as succeeded and the other
\* with the active-loan failure.
C2_ExactlyOneSucceeds ==
    \A r, q \in Requests :
        ( /\ r # q
          /\ ReachedLedger(r) /\ ReachedLedger(q)
          /\ pc[r] = "done" /\ pc[q] = "done"
          /\ request[r].employee_id = request[q].employee_id
          /\ \A o \in Requests \ {r, q} :
                ReachedLedger(o) => request[o].employee_id # request[r].employee_id )
        => \/ Succeeded(r) /\ RefusedActiveLoan(q)
           \/ Succeeded(q) /\ RefusedActiveLoan(r)

\* C3: a direct record_loan call for an employee who has an approved or
\* disbursed row raises the active-loan ValueError, whatever the loan types of
\* the old row and of the new one, and the caller's DataFrame is as before.
C3_SecondActiveLoanFails ==
    led_last # <<>> =>
        LET c == led_last[1]
        IN  ActiveRows(c.before, c.args.employee_id) # {} =>
                /\ c.call.raised = "ValueError"
                /\ c.call.msg = ActiveLoanMsg(c.args.employee_id)
                /\ led_df = c.before

\* a personal loan was refused because of a disbursed salary advance
C3_Witness ==
    /\ led_last # <<>>
    /\ led_last[1].args.loan_type = "personal_loan"
    /\ led_last[1].call.raised = "ValueError"
    /\ \E i \in ActiveRows(led_last[1].before, led_last[1].args.employee_id) :
          /\ led_last[1].before[i].loan_type = "salary_advance"
          /\ led_last[1].before[i].status = "disbursed"
    /\ led_df = led_last[1].before

\* the rules of the specification, stated on the arguments
SupportedLabel(f) == lower(f) \in {weekly, bi_weekly, semi_monthly, monthly}
Multiplier(f) ==
    CASE lower(f) = weekly -> 4
      [] lower(f) = bi_weekly -> 2
      [] lower(f) = semi_monthly -> 2
      [] lower(f) = monthly -> 1
MaxAdvance(s, f) == (s * Multiplier(f)) \div 2
MeetsAllRules(s, f, a) ==
    s >= MIN_SALARY /\ SupportedLabel(f) /\ 0 < a /\ a <= MaxAdvance(s, f)

EligibilityCalled == ev_out # <<>> /\ ev_out[1].op = "check_eligibility_detailed"
AdvanceAmountCalled == ev_out # <<>> /\ ev_out[1].op = "calculate_advance_amount"
VerdictReturned == EligibilityCalled /\ ev_out[1].call.raised = ""
Verdict == ev_out[1].call.ret[1]

\* C4: check_eligibility_detailed returns a verdict for every salary, label
\* and amount, and is_eligible is true exactly when the salary is at least
\* MIN_SALARY, the label is supported and 0 < requested <= maxAdvance; for
\* 200,000 / monthly / 100,000 the verdict is eligible with a maximum of 100,000.
C4_EligibleIffRules ==
    EligibilityCalled =>
        /\ ev_out[1].call.raised = ""
        /\ Verdict.is_eligible <=>
               MeetsAllRules(ev_in.gross_salary, ev_in.pay_frequency,
                             ev_in.requested_advance_amount)
        /\ (ev_in.gross_salary = 200000 /\ ev_in.pay_frequency = monthly
              /\ ev_in.requested_advance_amount = 100000)
            => Verdict.is_eligible /\ Verdict.max_eligible_advance = Some(100000)

\* C5: for a supported label and a salary s > 0 calculate_advance_amount
\* returns floor(s * multiplier * 0.5); for any other label it raises the
\* unsupported-frequency ValueError.
C5_AdvanceAmountIsTruncatedHalf ==
    (AdvanceAmountCalled /\ ev_in.gross_salary > 0) =>
        IF SupportedLabel(ev_in.pay_frequency)
        THEN /\ ev_out[1].call.raised = ""
             /\ ev_out[1].call.ret = Some(MaxAdvance(ev_in.gross_salary, ev_in.pay_frequency))
        ELSE /\ ev_out[1].call.raised = "ValueError"
             /\ ev_out[1].call.msg = UnsupportedMsg

\* an odd monthly salary under a capitalised label: half of it is truncated
C5_Witness ==
    /\ AdvanceAmountCalled
    /\ ev_in.gross_salary = 200001
    /\ ev_in.pay_frequency = MonthlyCapital
    /\ ev_out[1].call.ret = Some(100000)

\* an advance request that carries every field the handler reads
WellFormedAdvance(r) ==
    /\ kind[r] = "advance"
    /\ {"gross_salary", "pay_frequency", "employee_id", "salary_advance"} \subseteq DOMAIN request[r]
    /\ "requested_advance_amount" \in DOMAIN request[r].salary_advance

RequestedAmount(r) == request[r].salary_advance.requested_advance_amount

\* the rows of df that record the advance asked for by request r
AdvanceRows(df, r) ==
    {i \in 1..Len(df) :
        /\ df[i].employee_id = request[r].employee_id
        /\ df[i].loan_type = "salary_advance"}

\* C6: an advance request that meets every eligibility rule, for an employee
\* no other request is about, is answered eligible with the requested amount
\* approved, and the ledger then holds exactly one row for that employee: a
\* salary_advance with interest_rate 0, loan_term_months 0, status approved.
C6_EligibleAdvanceIsRecorded ==
    \A r \in Requests :
        ( /\ WellFormedAdvance(r)
          /\ pc[r] = "done"
          /\ MeetsAllRules(request[r].gross_salary, request[r].pay_frequency, RequestedAmount(r))
          /\ \A o \in Requests \ {r} :
                (kind[o] # "none" /\ "employee_id" \in DOMAIN request[o])
                    => request[o].employee_id # request[r].employee_id )
        => /\ outcome[r].status = "returned"
           /\ Response(r).advance_eligible
           /\ Response(r).approved_advance_amount = Some(RequestedAmount(r))
           /\ \E i \in 1..Len(loans_df) :
                 /\ \A j \in 1..Len(loans_df) :
                       loans_df[j].employee_id = request[r].employee_id => j = i
                 /\ loans_df[i].employee_id = request[r].employee_id
                 /\ loans_df[i].loan_type = "salary_advance"
                 /\ loans_df[i].amount = RequestedAmount(r)
                 /\ loans_df[i].interest_rate = ZeroRate
                 /\ loans_df[i].loan_term_months = 0
                 /\ loans_df[i].status = "approved"

\* C7: in every verdict check_eligibility_detailed returns, a false
\* salary_check or pay_frequency_check means max_eligible_advance is None,
\* advance_limit_check is true and no exceeds-maximum message is listed;
\* max_eligible_advance is set only when both checks are true.
C7_LimitNotEvaluatedAfterFailedCheck ==
    VerdictReturned =>
        /\ (~Verdict.salary_check \/ ~Verdict.pay_frequency_check) =>
               /\ Verdict.max_eligible_advance = None
               /\ Verdict.advance_limit_check
               /\ \A i \in 1..Len(Verdict.failed_criteria) :
                     Verdict.failed_criteria[i].text
                         # Str("Requested amount exceeds maximum eligible advance.")
        /\ Verdict.max_eligible_advance # None =>
               (Verdict.salary_check /\ Verdict.pay_frequency_check)

\* the salary passes, the label is unsupported and the amount is above any
\* limit that salary could give: the verdict carries no limit and no penalty
C7_Witness ==
    /\ VerdictReturned
    /\ ev_in.gross_salary = 200000
    /\ ev_in.pay_frequency = Daily
    /\ ev_in.requested_advance_amount = 1500001
    /\ Verdict.salary_check /\ ~Verdict.pay_frequency_check
    /\ Verdict.max_eligible_advance = None
    /\ Verdict.advance_limit_check

\* the messages a verdict must list, from its four checks, in rule order
ExpectedCriteria(v, in) ==
    (IF ~v.salary_check THEN <<SalaryMsg(in.gross_salary)>> ELSE <<>>)
    \o (IF ~v.pay_frequency_check THEN <<FrequencyMsg>> ELSE <<>>)
    \o (IF ~v.amount_check THEN <<AmountMsg>> ELSE <<>>)
    \o (IF ~v.advance_limit_check
        THEN <<LimitMsg(v.max_eligible_advance[1], in.requested_advance_amount)>>
        ELSE <<>>)

\* C8: in every verdict returned, failed_criteria is one message per false
\* check, in the order salary, pay frequency, amount, advance limit; and the
\* salary, frequency and amount checks are each evaluated on their own
\* argument, whatever the earlier ones gave.
C8_OneMessagePerFailedCheck ==
    VerdictReturned =>
        /\ Verdict.failed_criteria = ExpectedCriteria(Verdict, ev_in)
        /\ Verdict.salary_check <=> (ev_in.gross_salary >= MIN_SALARY)
        /\ Verdict.pay_frequency_check <=> SupportedLabel(ev_in.pay_frequency)
        /\ Verdict.amount_check <=> (ev_in.requested_advance_amount > 0)

\* one call reports three failures: salary, pay frequency and amount
C8_Witness ==
    /\ VerdictReturned
    /\ ev_in.gross_salary = 199999
    /\ ev_in.pay_frequency = BiWeeklyNoHyphen
    /\ ev_in.requested_advance_amount = 0
    /\ Verdict.failed_criteria = <<SalaryMsg(199999), FrequencyMsg, AmountMsg>>

\* C9: an advance request with an unsupported pay-frequency label and a
\* positive salary and amount ends with a normal response that reports not
\* eligible (pay_frequency_check false, no approved amount); the handler never
\* ends in an uncaught exception, never reaches its record_loan call, and no
\* salary-advance row of that employee is in the ledger.
C9_UnsupportedFrequencyNotEligible ==
    \A r \in Requests :
        ( /\ WellFormedAdvance(r)
          /\ ~SupportedLabel(request[r].pay_frequency)
          /\ request[r].gross_salary > 0
          /\ RequestedAmount(r) > 0 )
        => /\ pc[r] = "done"
           /\ outcome[r].status = "returned"
           /\ ~Response(r).error
           /\ ~Response(r).advance_eligible
           /\ Response(r).approved_advance_amount = None
           /\ Response(r).eligibility_details # None
           /\ ~Response(r).eligibility_details[1].pay_frequency_check
           /\ ~Response(r).eligibility_details[1].is_eligible
           /\ AdvanceRows(loans_df, r) = {}

\* a request with a salary above the minimum and the label "daily" was answered
C9_Witness ==
    \E r \in Requests :
        /\ WellFormedAdvance(r)
        /\ request[r].pay_frequency = Daily
        /\ request[r].gross_salary = 3000000
        /\ pc[r] = "done"
        /\ outcome[r].status = "returned"
        /\ ~Response(r).advance_eligible

\* one of the two loan calculations gave its failure value, whatever the C
\* library
CalculationFailed(req) ==
    \A libm \in LibmRoundings :
        \/ calculate_total_repayable_loan_amount(
               req.loan_amount, req.annual_interest_rate, req.loan_term_months, libm) = 0
        \/ generate_amortization_schedule(
               req.loan_amount, req.annual_interest_rate, req.loan_term_months, Some(Today), libm) = <<>>

\* C10: a loan request one of whose calculations failed is answered as a
\* failure with no total and no schedule, and no row of it is in the ledger.
C10_NoAppendAfterFailedCalculation ==
    \A r \in Requests :
        ( /\ kind[r] = "loan"
          /\ pc[r] = "done"
          /\ ReachedLedger(r)
          /\ CalculationFailed(request[r]) )
        => /\ outcome[r].status = "returned"
           /\ Response(r).error
           /\ ~Response(r).loan_requested
           /\ Response(r).loan_total_repayable_amount = None
           /\ Response(r).loan_amortization_schedule = None
           /\ \A i \in 1..Len(loans_df) :
                 ~( /\ loans_df[i].employee_id = request[r].employee_id
                    /\ loans_df[i].interest_rate = request[r].annual_interest_rate )

\* a loan request that carries every field the handler reads
WellFormedLoan(r) ==
    /\ kind[r] = "loan"
    /\ {"employee_id", "loan_amount", "annual_interest_rate", "loan_term_months"}
           \subseteq DOMAIN request[r]

\* the InvalidInput message the handler gives for request r, <<>> when the
\* arguments of r are all in range
OutOfRangeMessage(r) ==
    IF WellFormedAdvance(r)
    THEN IF request[r].gross_salary <= 0 THEN Str("Invalid gross_salary")
         ELSE IF RequestedAmount(r) <= 0 THEN Str("Invalid requested_advance_amount")
         ELSE <<>>
    ELSE IF WellFormedLoan(r)
    THEN IF \/ request[r].loan_amount <= 0
            \/ request[r].annual_interest_rate.m < 0
            \/ ( /\ request[r].annual_interest_rate.k < 31
                 /\ request[r].annual_interest_rate.m > Pow(2, request[r].annual_interest_rate.k) )
            \/ request[r].loan_term_months <= 0
         THEN Str("Invalid loan parameters")
         ELSE <<>>
    ELSE <<>>

\* C11: a request with an out-of-range argument (advance: salary <= 0 or
\* amount <= 0; loan: principal <= 0, rate outside [0,1] or term <= 0) is
\* answered at once with an error response that names the invalid input; no
\* eligibility verdict, total or schedule was computed for it, and the handler
\* never reaches its record_loan call, so it writes nothing to the ledger.
C11_OutOfRangeRejectedBeforeCalculation ==
    \A r \in Requests :
        OutOfRangeMessage(r) # <<>> =>
            /\ pc[r] = "done"
            /\ ~ReachedLedger(r)
            /\ outcome[r].status = "returned"
            /\ Response(r).error
            /\ Response(r).error_message = OutOfRangeMessage(r)
            /\ frame[r] = NoFrame
            /\ IF kind[r] = "advance"
               THEN /\ ~Response(r).advance_eligible
                    /\ Response(r).approved_advance_amount = None
                    /\ Response(r).eligibility_details = None
               ELSE /\ ~Response(r).loan_requested
                    /\ Response(r).loan_total_repayable_amount = None
                    /\ Response(r).loan_amortization_schedule = None

\* a loan request with a negative rate and an advance request with salary 0
\* were both rejected while another request's row is in the ledger
C11_Witness ==
    \E r, q \in Requests :
        /\ WellFormedLoan(r)
        /\ request[r].annual_interest_rate.m < 0
        /\ Response(r).error_message = Str("Invalid loan parameters")
        /\ WellFormedAdvance(q)
        /\ request[q].gross_salary <= 0
        /\ pc[q] = "done"
        /\ Response(q).error_message = Str("Invalid gross_salary")
        /\ Len(loans_df) = 1

IsPrefix(s, t) == Len(s) <= Len(t) /\ SubSeq(t, 1, Len(s)) = s

\* C12: whatever the interleaving of the handlers and of GET /loans, the
\* records an earlier GET /loans returned are a prefix of the records any
\* later GET /loans returns: no listed record is removed, reordered or altered.
C12_ListingsGrowByAppending ==
    \A i, j \in 1..Len(listings) :
        i < j => IsPrefix(listings[i], listings[j])

\* the valid inputs of the loan calculators
ValidLoanInput(in) ==
    in.principal_amount > 0 /\ in.annual_interest_rate.m >= 0 /\ in.loan_term_months >= 1

ScheduleCalled == ev_out # <<>> /\ ev_out[1].op = "generate_amortization_schedule"
TotalCalled == ev_out # <<>> /\ ev_out[1].op = "calculate_total_repayable_loan_amount"

\* a 2-decimal amount of a schedule, in hundredths
Hundredths(amount) == 100 * amount.whole + amount.cents

RECURSIVE SumPrincipalPaid(_)
SumPrincipalPaid(rows) ==
    IF rows = <<>> THEN 0 ELSE Hundredths(rows[1].Principal_Paid) + SumPrincipalPaid(Tail(rows))

Abs(x) == IF x < 0 THEN -x ELSE x

\* C13: for every valid input (principal > 0, rate >= 0, term >= 1) the
\* schedule has a last entry, its ending balance is exactly 0, and the
\* principal_paid column sums to the principal within 0.01 per entry
\* (amounts in hundredths: within one per entry of 100 * principal).
C13_ScheduleRepaysThePrincipal ==
    (ScheduleCalled /\ ValidLoanInput(ev_in)) =>
        LET rows == ev_out[1].ret
        IN  /\ rows # <<>>
            /\ Hundredths(rows[Len(rows)].Ending_Balance) = 0
            /\ Abs(SumPrincipalPaid(rows) - 100 * ev_in.principal_amount) <= Len(rows)

\* c hundredths is num / den rounded to 2 decimals: within half a hundredth
IsRounded(c, num, den) == 2 * Abs(den * c - 100 * num) <= den

ZeroRateScheduleCalled ==
    ScheduleCalled /\ ValidLoanInput(ev_in) /\ ev_in.annual_interest_rate = ZeroRate

\* C14 as stated: at rate 0 the schedule has term entries, every
\* monthly_payment is principal / term, interest_paid is 0, the balance falls
\* by exactly principal / term in every period and ends at 0.
C14_ZeroRateExactInstalments ==
    ZeroRateScheduleCalled =>
        LET rows == ev_out[1].ret
            n == ev_in.loan_term_months
        IN  /\ Len(rows) = n
            /\ \A i \in 1..Len(rows) :
                  /\ n * Hundredths(rows[i].Monthly_Payment) = 100 * ev_in.principal_amount
                  /\ Hundredths(rows[i].Interest_Paid) = 0
                  /\ n * (Hundredths(rows[i].Beginning_Balance) - Hundredths(rows[i].Ending_Balance))
                         = 100 * ev_in.principal_amount
            /\ Hundredths(rows[n].Ending_Balance) = 0

\* C14, amended: at rate 0 the schedule has term entries, interest_paid is 0
\* in every period, every monthly_payment is principal / term rounded to 2
\* decimals, the ending balance after period i is principal - i * principal /
\* term rounded to 2 decimals, the final ending balance is 0, and when
\* principal / term is a whole number of hundredths the payment is exactly
\* that and the balance falls by exactly that in every period (1,200,000 over
\* 12 months: payments of 100,000.00).
C14_ZeroRateRoundedInstalments ==
    ZeroRateScheduleCalled =>
        LET rows == ev_out[1].ret
            P == ev_in.principal_amount
            n == ev_in.loan_term_months
        IN  /\ Len(rows) = n
            /\ \A i \in 1..Len(rows) :
                  /\ rows[i].Payment_Number = i
                  /\ Hundredths(rows[i].Interest_Paid) = 0
                  /\ IsRounded(Hundredths(rows[i].Monthly_Payment), P, n)
                  /\ IsRounded(Hundredths(rows[i].Ending_Balance), P * (n - i), n)
                  /\ (100 * P) % n = 0 =>
                        /\ n * Hundredths(rows[i].Monthly_Payment) = 100 * P
                        /\ n * (Hundredths(rows[i].Beginning_Balance) - Hundredths(rows[i].Ending_Balance)) = 100 * P
            /\ Hundredths(rows[n].Ending_Balance) = 0
            /\ (P = 1200000 /\ n = 12) =>
                  \A i \in 1..Len(rows) : Hundredths(rows[i].Monthly_Payment) = 10000000

\* 1000 over 3 months at rate 0: payments of 333.33 and balances 666.67,
\* 333.33 and 0
C14_Witness ==
    /\ ZeroRateScheduleCalled
    /\ ev_in.principal_amount = 1000
    /\ ev_in.loan_term_months = 3
    /\ Hundredths(ev_out[1].ret[1].Monthly_Payment) = 33333
    /\ Hundredths(ev_out[1].ret[1].Ending_Balance) = 66667
    /\ Hundredths(ev_out[1].ret[2].Ending_Balance) = 33333
    /\ Hundredths(ev_out[1].ret[3].Ending_Balance) = 0

\* a <= b for two rates m / 2^k
RateLeq(a, b) ==
    IF a.k >= b.k
    THEN IF a.k - b.k >= 31 THEN (a.m <= 0 \/ b.m > 0)
         ELSE a.m <= b.m * Pow(2, a.k - b.k)
    ELSE IF b.k - a.k >= 31 THEN (a.m <= 0 /\ b.m >= 0) \/ (a.m < 0)
         ELSE a.m * Pow(2, b.k - a.k) <= b.m

\* the result of calculate_total_repayable_loan_amount on the arguments in
TotalOf(in, libm) ==
    calculate_total_repayable_loan_amount(
        in.principal_amount, in.annual_interest_rate, in.loan_term_months, libm)

\* C15: on valid inputs, for a fixed principal > 0 the truncated total does
\* not decrease when the rate is raised with the term fixed, nor when the
\* term is raised with the rate (>= 0) fixed: the result of a call is at most
\* the result for every other input that is above it in one of these ways,
\* whichever float the C library's pow returns there.
C15_TotalRepayableIsMonotonic ==
    (TotalCalled /\ ValidLoanInput(ev_in)) =>
        \A in \in CalcInputs, libm \in LibmRoundings :
            ( /\ ValidLoanInput(in)
              /\ in # ev_in
              /\ in.principal_amount = ev_in.principal_amount
              /\ \/ /\ in.loan_term_months = ev_in.loan_term_months
                    /\ RateLeq(ev_in.annual_interest_rate, in.annual_interest_rate)
                 \/ /\ in.annual_interest_rate = ev_in.annual_interest_rate
                    /\ in.loan_term_months >= ev_in.loan_term_months )
            => ev_out[1].ret <= TotalOf(in, libm)

\* 1000 at rate 1.0: 1173 over 2 months, which is above the 1083 of 1 month
\* and the 1000 of the same term at rate 0
C15_Witness ==
    /\ TotalCalled
    /\ ev_in.principal_amount = 1000
    /\ ev_in.annual_interest_rate = FullRate
    /\ ev_in.loan_term_months = 2
    /\ ev_out[1].ret = 1173
    /\ \A libm \in LibmRoundings :
           /\ TotalOf([ev_in EXCEPT !.loan_term_months = 1], libm) = 1083
           /\ TotalOf([ev_in EXCEPT !.annual_interest_rate = ZeroRate], libm) = 1000

\* request r holds the response of a handler whose verdict was not eligible
AnsweredWithIneligibleVerdict(out) ==
    /\ out.status = "returned"
    /\ out.response[1].eligibility_details # None
    /\ ~out.response[1].eligibility_details[1].is_eligible

\* C16: the step of an advance request in which check_eligibility_detailed is
\* evaluated leaves the ledger as it is, and an advance request whose verdict
\* is not eligible is answered in that same step, as not eligible and with no
\* approved amount: it never reads or writes the ledger.
C16_EligibilityLeavesLedgerUnchanged ==
    [][\A r \in Requests :
          /\ (pc[r] = "idle" /\ kind'[r] = "advance") => loans_df' = loans_df
          /\ ( /\ kind'[r] = "advance"
               /\ pc[r] # "done" /\ pc'[r] = "done"
               /\ AnsweredWithIneligibleVerdict(outcome'[r]) )
             => /\ pc[r] = "idle"
                /\ loans_df' = loans_df
                /\ frame'[r].df_loans = <<>>
                /\ ~outcome'[r].response[1].advance_eligible
                /\ outcome'[r].response[1].approved_advance_amount = None]_vars

\* an advance request was answered with a not-eligible verdict while the
\* ledger holds the row of another request, and the row is still there
C16_Witness ==
    \E r, q \in Requests :
        /\ kind[r] = "advance"
        /\ pc[r] = "done"
        /\ AnsweredWithIneligibleVerdict(outcome[r])
        /\ q < r
        /\ Succeeded(q)
        /\ Len(loans_df) = 1
        /\ loans_df[1].employee_id = request[q].employee_id

\* the row the record_loan call of request r appends
RowOf(r) == handler_record_loan(kind[r], request[r], <<>>).ret[1][1]

\* no other request that reaches the ledger is about the employee of r
OnlyRequestOfEmployee(r) ==
    \A o \in Requests \ {r} :
        ReachedLedger(o) => request[o].employee_id # request[r].employee_id

\* C17: two requests for different employees, neither with another request
\* at the ledger, are both answered as succeeded whatever the interleaving of
\* their read, record_loan call and write-back, and the ledger then holds
\* the rows of both; the row of every request answered as succeeded is in the
\* ledger.
C17_ConcurrentRecordsAreKept ==
    /\ \A r, q \in Requests :
          ( /\ r # q
            /\ ReachedLedger(r) /\ ReachedLedger(q)
            /\ pc[r] = "done" /\ pc[q] = "done"
            /\ OnlyRequestOfEmployee(r) /\ OnlyRequestOfEmployee(q) )
          => /\ Succeeded(r) /\ Succeeded(q)
             /\ \E i \in 1..Len(loans_df) : loans_df[i] = RowOf(r)
             /\ \E i \in 1..Len(loans_df) : loans_df[i] = RowOf(q)
    /\ \A r \in Requests :
          Succeeded(r) => \E i \in 1..Len(loans_df) : loans_df[i] = RowOf(r)

IfEligibleCalled == ev_out # <<>> /\ ev_out[1].op = "if_eligible"

\* C18: for every salary, label and amount, if_eligible returns True exactly
\* when check_eligibility_detailed, on the same arguments, returns a verdict
\* whose is_eligible is true.
C18_EligibilityFunctionsAgree ==
    IfEligibleCalled =>
        LET detailed == check_eligibility_detailed(
                            ev_in.gross_salary, ev_in.pay_frequency,
                            ev_in.requested_advance_amount)
        IN  /\ ev_out[1].call.raised = ""
            /\ ev_out[1].call.ret[1] <=>
                  (detailed.raised = "" /\ detailed.ret[1].is_eligible)

====
